---- MODULE Spec2Model ----
(***************************************************************************)
(* AstroCycle: the closed simulate -> reason -> adapt loop of              *)
(* astrocycle.py (ion thruster electrode, 15 cycles, critical-failure      *)
(* flag) and hackathon.py (space material, 10 cycles, no flag).            *)
(*                                                                         *)
(* Python floats are modelled as fixed-point integers with SCALE units per *)
(* 1.0 (four decimals); a product is truncated to that grid.  A text is a  *)
(* sequence of lines and a line a sequence of tokens: the marker and the   *)
(* "name=" keys are one token each, "," and " " are tokens, a decimal      *)
(* literal is one token, and "w" / "abc" stand for a word of commentary.   *)
(***************************************************************************)
EXTENDS Integers, Sequences, FiniteSets, TLC

VARIABLES
    script,         \* "astro" (astrocycle.py) or "hack" (hackathon.py)
    pc,             \* position of run_simulation
    i,              \* the loop index of run_simulation
    state,          \* electrode (IonThrusterElectrode) / state (MaterialState)
    environment,    \* MissionEnvironment / SpaceEnvironment
    cycle_history,  \* list of to_dict() snapshots
    all_reasoning,  \* list of reply texts
    reasoning,      \* the last reply text returned by run_brain_cycle
    prompt,         \* the request handed to the text-generation boundary
    pre,            \* state and environment when the current operation began
    updates,        \* number of apply_degradation invocations
    calls,          \* number of per-cycle requests issued
    synthCalls,     \* number of synthesis requests issued
    reported,       \* the CRITICAL FAILURE DETECTED lines were printed
    outcome,        \* Running, Completed, Terminated-Early
    failed,         \* "no", or which external call raised: "cycle", "synthesis"
    firstFail,      \* update on which critical_failure first became true, 0 if none
    gen,            \* the shape the reply under parse was rendered from
    steps           \* operations applied so far (function-level specifications)

vars == <<script, pc, i, state, environment, cycle_history, all_reasoning,
          reasoning, prompt, pre, updates, calls, synthCalls, reported,
          outcome, failed, firstFail, gen, steps>>

Scripts == {"astro", "hack"}

----------------------------------------------------------------------------
(* Bounds of the model *)

\* replies carrying a marker line that one run may receive
MaxAdjust == 2
\* name=value pairs on a generated marker line
MaxPairs == 3
\* operations applied in the function-level specification of the update
MaxDegSteps == 2

----------------------------------------------------------------------------
(* Numbers *)

SCALE == 10^4

\* x * y on floats
Mul(x, y) == (x * y) \div SCALE

\* round(x, ndigits): unit is SCALE / 10^ndigits
Round(x, unit) == ((x + unit \div 2) \div unit) * unit

\* for i in range(15) / for i in range(10)
MaxCyclesAstro == 15
MaxCyclesHack == 10
MaxCycles(s) == IF s = "astro" THEN MaxCyclesAstro ELSE MaxCyclesHack

----------------------------------------------------------------------------
(* Text operations, on token sequences *)

\* tok in s
Contains(s, tok) == \E k \in 1..Len(s) : s[k] = tok

FirstIndex(s, tok) ==
    CHOOSE k \in 1..Len(s) : s[k] = tok /\ \A j \in 1..(k-1) : s[j] # tok

\* s.split(sep)[0]
SplitHead(s, sep) ==
    IF Contains(s, sep) THEN SubSeq(s, 1, FirstIndex(s, sep) - 1) ELSE s

\* s.split(sep)[1], for s containing sep
SplitSecond(s, sep) ==
    SplitHead(SubSeq(s, FirstIndex(s, sep) + 1, Len(s)), sep)

RECURSIVE LStrip(_)
LStrip(s) == IF s # <<>> /\ Head(s) = " " THEN LStrip(Tail(s)) ELSE s

RECURSIVE RStrip(_)
RStrip(s) ==
    IF s # <<>> /\ s[Len(s)] = " " THEN RStrip(SubSeq(s, 1, Len(s) - 1)) ELSE s

\* s.strip()
Strip(s) == RStrip(LStrip(s))

\* s.split()[0]: the first whitespace-free run; IndexError when there is none
SplitWsFirst(s) ==
    LET t == LStrip(s)
    IN  IF t = <<>> THEN [ok |-> FALSE, val |-> <<>>]
        ELSE [ok |-> TRUE, val |-> SplitHead(t, " ")]

\* the decimal literals of the model and their values
NumTokens == {"-1.0", "0.0", "0.5", "0.9", "1.0", "1.1", "2.0"}
LiteralValue(tok) ==
    CASE tok = "-1.0" -> -10000
      [] tok = "0.0" -> 0
      [] tok = "0.5" -> 5000
      [] tok = "0.9" -> 9000
      [] tok = "1.0" -> 10000
      [] tok = "1.1" -> 11000
      [] tok = "2.0" -> 20000

\* float(s): a value, or ValueError (ok = FALSE)
Float(s) ==
    IF Len(s) = 1 /\ s[1] \in NumTokens
    THEN [ok |-> TRUE, val |-> LiteralValue(s[1])]
    ELSE [ok |-> FALSE, val |-> 0]

Marker(s) == IF s = "astro" THEN "RECOMMEND:" ELSE "ADJUST:"

\* MARKER in reasoning
HasMarker(s, text) == \E k \in 1..Len(text) : Contains(text[k], Marker(s))

\* [line for line in reasoning.split('\n') if MARKER in line][0]
MarkerLine(s, text) ==
    text[CHOOSE k \in 1..Len(text) :
            /\ Contains(text[k], Marker(s))
            /\ \A j \in 1..(k-1) : ~Contains(text[j], Marker(s))]

----------------------------------------------------------------------------
(* State Model and Environment Model *)

\* IonThrusterElectrode.__init__
ElectrodeInit ==
    [sputtering_depth |-> 0, surface_roughness |-> 500, microcracks |-> 200,
     thermal_stress |-> 300, hot_spot_formation |-> 100,
     electrical_resistance |-> 10000, arc_discharge_risk |-> 500,
     thrust_efficiency_loss |-> 0, cycle_count |-> 0,
     critical_failure |-> FALSE]

\* MaterialState.__init__
MaterialInit ==
    [defect_density |-> 100, thermal_stress |-> 500, conductivity_drift |-> 0,
     cycle_count |-> 0]

\* MissionEnvironment.__init__
MissionEnvironmentInit ==
    [ion_flux |-> 10000, voltage |-> 10000, thermal_cycling |-> 10000,
     mission_hours |-> 100]

\* SpaceEnvironment.__init__
SpaceEnvironmentInit == [radiation_level |-> 10000, temp_cycling |-> 10000]

StateInit(s) == IF s = "astro" THEN ElectrodeInit ELSE MaterialInit
EnvironmentInit(s) ==
    IF s = "astro" THEN MissionEnvironmentInit ELSE SpaceEnvironmentInit

\* IonThrusterElectrode.to_dict / MaterialState.to_dict
to_dict(s, st) ==
    IF s = "astro"
    THEN [cycle |-> st.cycle_count,
          sputtering_depth_um |-> Round(st.sputtering_depth, 10),
          surface_roughness |-> Round(st.surface_roughness, 10),
          microcracks |-> Round(st.microcracks, 10),
          thermal_stress |-> Round(st.thermal_stress, 10),
          hot_spot_formation |-> Round(st.hot_spot_formation, 10),
          electrical_resistance |-> Round(st.electrical_resistance, 10),
          arc_discharge_risk |-> Round(st.arc_discharge_risk, 10),
          thrust_efficiency_loss_pct |->
              Round(st.thrust_efficiency_loss * 100, 100),
          critical_failure |-> st.critical_failure]
    ELSE [cycle |-> st.cycle_count,
          defect_density |-> Round(st.defect_density, 1),
          thermal_stress |-> Round(st.thermal_stress, 1),
          conductivity_drift |-> Round(st.conductivity_drift, 1)]

\* MissionEnvironment.to_dict / SpaceEnvironment.to_dict
env_to_dict(s, env) ==
    IF s = "astro"
    THEN [ion_flux |-> Round(env.ion_flux, 100),
          voltage |-> Round(env.voltage, 100),
          thermal_cycling |-> Round(env.thermal_cycling, 100),
          mission_hours |-> env.mission_hours]
    ELSE [radiation_level |-> Round(env.radiation_level, 100),
          temp_cycling |-> Round(env.temp_cycling, 100)]

----------------------------------------------------------------------------
(* Degradation Update *)

\* the critical failure conditions of astrocycle.py
ThresholdExceeded(arc_discharge_risk, sputtering_depth, thrust_efficiency_loss) ==
    \/ arc_discharge_risk > 7000
    \/ sputtering_depth > 500000
    \/ thrust_efficiency_loss > 3000

\* the flag recomputed by every update
FlagRecomputed(old, exceeded) == exceeded

\* the value critical_failure has after the threshold test
FlagAfterTest(old, exceeded) == IF exceeded THEN TRUE ELSE old

\* the value cycle_count has after the update
CountAfterUpdate(n) == n + 1

\* x = inc
Overwrite(x, inc) == inc

\* x += inc
PlusAssign(x, inc) == x + inc

\* IonThrusterElectrode.apply_degradation
ElectrodeDegradation(e, ion_flux, voltage, thermal_cycling) ==
    LET sputter_rate ==
            Mul(Mul(ion_flux, 150), SCALE + Mul(e.surface_roughness, 3000))
        sputtering_depth == PlusAssign(e.sputtering_depth, sputter_rate)
        surface_roughness ==
            PlusAssign(e.surface_roughness,
                Mul(Mul(sputter_rate, 8000), SCALE + Mul(e.thermal_stress, 5000)))
        crack_growth ==
            Mul(Mul(thermal_cycling, 180), SCALE + Mul(sputtering_depth, 4000))
        microcracks == PlusAssign(e.microcracks, crack_growth)
        thermal_stress ==
            PlusAssign(e.thermal_stress,
                Mul(Mul(thermal_cycling, 200), SCALE + Mul(microcracks, 12000)))
        hot_spot_formation ==
            PlusAssign(e.hot_spot_formation,
                Mul(Mul(microcracks, surface_roughness), 250))
        resistance_increase ==
            Mul(microcracks, 800) + Mul(sputtering_depth, 500)
              + Mul(hot_spot_formation, 1200)
        electrical_resistance ==
            PlusAssign(e.electrical_resistance, resistance_increase)
        arc_discharge_risk ==
            PlusAssign(e.arc_discharge_risk,
                Mul(Mul(voltage, electrical_resistance), 100)
                  + Mul(hot_spot_formation, 1500))
        thrust_efficiency_loss ==
            PlusAssign(e.thrust_efficiency_loss,
                Mul(sputtering_depth, 200) + Mul(electrical_resistance, 150)
                  + Mul(surface_roughness, 100))
    IN  [sputtering_depth |-> sputtering_depth,
         surface_roughness |-> surface_roughness,
         microcracks |-> microcracks,
         thermal_stress |-> thermal_stress,
         hot_spot_formation |-> hot_spot_formation,
         electrical_resistance |-> electrical_resistance,
         arc_discharge_risk |-> arc_discharge_risk,
         thrust_efficiency_loss |-> thrust_efficiency_loss,
         cycle_count |-> CountAfterUpdate(e.cycle_count),
         critical_failure |->
             FlagAfterTest(e.critical_failure,
                 ThresholdExceeded(arc_discharge_risk, sputtering_depth,
                                   thrust_efficiency_loss))]

\* MaterialState.apply_degradation
MaterialDegradation(m, radiation_level, temp_cycling) ==
    LET defect_density ==
            PlusAssign(m.defect_density,
                Mul(Mul(radiation_level, 80), SCALE + m.thermal_stress))
        thermal_stress ==
            PlusAssign(m.thermal_stress,
                Mul(Mul(temp_cycling, 120), SCALE + Mul(defect_density, 5000)))
        conductivity_drift ==
            m.conductivity_drift
              - (Mul(defect_density, 150) + Mul(thermal_stress, 80))
    IN  [defect_density |-> defect_density,
         thermal_stress |-> thermal_stress,
         conductivity_drift |-> conductivity_drift,
         cycle_count |-> CountAfterUpdate(m.cycle_count)]

\* state.apply_degradation(...) as run_brain_cycle calls it
apply_degradation(s, st, env) ==
    IF s = "astro"
    THEN ElectrodeDegradation(st, env.ion_flux, env.voltage, env.thermal_cycling)
    ELSE MaterialDegradation(st, env.radiation_level, env.temp_cycling)

----------------------------------------------------------------------------
(* Adjustment Parser *)

Raised == [ok |-> FALSE, val |-> 0]

\* float(line.split(key)[1].split(',')[0].strip())
ValueUpToComma(line, key) ==
    IF Contains(line, key)
    THEN Float(Strip(SplitHead(SplitSecond(line, key), ",")))
    ELSE Raised

\* float(line.split('thermal=')[1].strip())
ValueToEnd(line, key) ==
    IF Contains(line, key) THEN Float(Strip(SplitSecond(line, key))) ELSE Raised

\* float(line.split('temp=')[1].split()[0].strip())
ValueFirstWord(line, key) ==
    IF Contains(line, key)
    THEN LET w == SplitWsFirst(SplitSecond(line, key))
         IN  IF w.ok THEN Float(Strip(w.val)) ELSE Raised
    ELSE Raised

\* one "if key in line: val = float(...); environment.field *= val" block,
\* skipped once an earlier block has raised
AdjustField(acc, line, key, field, conv) ==
    IF acc.raised \/ ~Contains(line, key) THEN acc
    ELSE IF conv.ok
         THEN [acc EXCEPT !.env = [@ EXCEPT ![field] = Mul(@, conv.val)]]
         ELSE [acc EXCEPT !.raised = TRUE]

\* the try block of astrocycle.run_brain_cycle
AdjustMission(env, text) ==
    IF ~HasMarker("astro", text) THEN env
    ELSE LET recommend_line == MarkerLine("astro", text)
             a0 == [env |-> env, raised |-> FALSE]
             a1 == AdjustField(a0, recommend_line, "ion_flux=", "ion_flux",
                               ValueUpToComma(recommend_line, "ion_flux="))
             a2 == AdjustField(a1, recommend_line, "voltage=", "voltage",
                               ValueUpToComma(recommend_line, "voltage="))
             a3 == AdjustField(a2, recommend_line, "thermal=", "thermal_cycling",
                               ValueToEnd(recommend_line, "thermal="))
         IN  a3.env

\* the try block of hackathon.run_brain_cycle
AdjustSpace(env, text) ==
    IF ~HasMarker("hack", text) THEN env
    ELSE LET adjust_line == MarkerLine("hack", text)
             a0 == [env |-> env, raised |-> FALSE]
             a1 == AdjustField(a0, adjust_line, "radiation=", "radiation_level",
                               ValueUpToComma(adjust_line, "radiation="))
             a2 == AdjustField(a1, adjust_line, "temp=", "temp_cycling",
                               ValueFirstWord(adjust_line, "temp="))
         IN  a2.env

\* the parser without its marker test: the first line is taken as the marker line
ParseAnyLine(s, env, text) ==
    IF s = "astro" THEN AdjustMission(env, <<<<"RECOMMEND:">> \o text[1]>>)
    ELSE AdjustSpace(env, <<<<"ADJUST:">> \o text[1]>>)

ParseAdjustments(s, env, text) ==
    IF s = "astro" THEN AdjustMission(env, text) ELSE AdjustSpace(env, text)

----------------------------------------------------------------------------
(* Reasoning Adapter: the requests *)

\* cycle_history[-4:] if len(cycle_history) >= 4 else cycle_history (3 in hackathon.py)
RecentHistory(s, h) ==
    LET K == IF s = "astro" THEN 4 ELSE 3
    IN  IF Len(h) >= K THEN SubSeq(h, Len(h) - K + 1, Len(h)) ELSE h

\* the prompt of run_brain_cycle
CyclePrompt(s, st, env, h) ==
    [kind |-> "cycle", state |-> to_dict(s, st),
     environment |-> env_to_dict(s, env), history |-> RecentHistory(s, h),
     analyses |-> <<>>]

\* the synthesis prompt built from the recent window only
RecentOnly(h) == IF Len(h) >= 4 THEN SubSeq(h, Len(h) - 3, Len(h)) ELSE h

\* the history the synthesis prompt embeds
SynthesisHistory(h) == h

\* synthesis_prompt of run_simulation
SynthesisPrompt(s, st, env, h, rs) ==
    [kind |-> "synthesis", state |-> to_dict(s, st),
     environment |-> env_to_dict(s, env), history |-> SynthesisHistory(h),
     analyses |-> [k \in 1..Len(rs) |-> <<k, rs[k]>>]]

NoPrompt ==
    [kind |-> "none", state |-> <<>>, environment |-> <<>>, history |-> <<>>,
     analyses |-> <<>>]

----------------------------------------------------------------------------
(* Replies of the text-generation boundary in a run *)

NoAdvice(s) ==
    IF s = "astro"
    THEN << <<"ACCELERATION:", " ", "w">>, <<"INTERACTION:", " ", "w">> >>
    ELSE << <<"TREND:", " ", "w">>, <<"RISK:", " ", "w">> >>

Advice(s) ==
    IF s = "astro"
    THEN << <<"ACCELERATION:", " ", "w">>,
            <<"RECOMMEND:", " ", "ion_flux=", "2.0", ",", " ",
              "voltage=", "2.0", ",", " ", "thermal=", "2.0">> >>
    ELSE << <<"TREND:", " ", "w">>,
            <<"ADJUST:", " ", "radiation=", "0.9", ",", " ", "temp=", "1.1">> >>

Garbled(s) ==
    IF s = "astro"
    THEN << <<"RECOMMEND:", " ", "ion_flux=", "0.5", ",", " ",
              "voltage=", "abc", ",", " ", "thermal=", "0.5">> >>
    ELSE << <<"ADJUST:", " ", "radiation=", "1.1", ",", " ", "temp=", "abc">> >>

\* a reply whose values are decimals float() accepts, one zero and one negative
Degenerate(s) ==
    IF s = "astro"
    THEN << <<"RECOMMEND:", " ", "ion_flux=", "1.0", ",", " ",
              "voltage=", "0.0", ",", " ", "thermal=", "-1.0">> >>
    ELSE << <<"ADJUST:", " ", "radiation=", "0.0", ",", " ", "temp=", "-1.0">> >>

RunReplies(s) == {NoAdvice(s), Advice(s), Garbled(s), Degenerate(s)}

\* replies with a marker line among those received so far
MarkedReplies(s, rs) ==
    Cardinality({k \in 1..Len(rs) : HasMarker(s, rs[k])})

----------------------------------------------------------------------------
(* Cycle Driver: run_simulation *)

NoShape == [pairs |-> <<>>, trailing |-> "none", layout |-> "none"]

Init ==
    /\ script \in Scripts
    /\ pc = "loop"
    /\ i = 0
    /\ state = StateInit(script)
    /\ environment = EnvironmentInit(script)
    /\ cycle_history = <<>>
    /\ all_reasoning = <<>>
    /\ reasoning = <<>>
    /\ prompt = NoPrompt
    /\ pre = [state |-> StateInit(script), environment |-> EnvironmentInit(script)]
    /\ updates = 0
    /\ calls = 0
    /\ synthCalls = 0
    /\ reported = FALSE
    /\ outcome = "Running"
    /\ failed = "no"
    /\ firstFail = 0
    /\ gen = NoShape
    /\ steps = 0

\* the loop without its break test
BreakNever == FALSE

\* if electrode.critical_failure: ... break (astrocycle.py only)
BreakCondition == script = "astro" /\ state.critical_failure

\* the exception swallowed: the loop goes on
AfterRaiseSwallowed == "loop"

\* where run_simulation is after an exception of the external call
AfterRaise == "raised"

\* cycle_history.append(state.to_dict())
HistoryAppend(h, entry) == Append(h, entry)

\* Top of one loop iteration up to the external call of run_brain_cycle:
\* the break test fails, apply_degradation runs, the prompt is built and sent.
StartCycle ==
    /\ pc = "loop"
    /\ i < MaxCycles(script)
    /\ ~BreakCondition
    /\ LET st == apply_degradation(script, state, environment)
       IN  /\ state' = st
           /\ prompt' = CyclePrompt(script, st, environment, cycle_history)
           /\ firstFail' =
                IF firstFail = 0 /\ script = "astro" /\ st.critical_failure
                THEN updates + 1 ELSE firstFail
    /\ pre' = [state |-> state, environment |-> environment]
    /\ updates' = updates + 1
    /\ calls' = calls + 1
    /\ pc' = "call"
    /\ UNCHANGED <<script, i, environment, cycle_history, all_reasoning,
                   reasoning, synthCalls, reported, outcome, failed>>

\* The external call returns text r: the adjustments are parsed and applied,
\* run_brain_cycle returns, the snapshot and the text are appended.
CycleReply(r) ==
    /\ pc = "call"
    /\ reasoning' = r
    /\ environment' = ParseAdjustments(script, environment, r)
    /\ cycle_history' = HistoryAppend(cycle_history, to_dict(script, state))
    /\ all_reasoning' = Append(all_reasoning, r)
    /\ i' = i + 1
    /\ pc' = "loop"
    /\ UNCHANGED <<script, state, prompt, pre, updates, calls, synthCalls,
                   reported, outcome, failed, firstFail>>

\* The external call of run_brain_cycle raises: nothing catches it.
CycleCallRaises ==
    /\ pc = "call"
    /\ failed' = "cycle"
    /\ pc' = AfterRaise
    /\ UNCHANGED <<script, i, state, environment, cycle_history, all_reasoning,
                   reasoning, prompt, pre, updates, calls, synthCalls, reported,
                   outcome, firstFail>>

\* The break of astrocycle.py: the failure lines are printed, the loop is left.
BreakOnFailure ==
    /\ pc = "loop"
    /\ i < MaxCycles(script)
    /\ BreakCondition
    /\ reported' = TRUE
    /\ outcome' = "Terminated-Early"
    /\ pc' = "synthesis"
    /\ UNCHANGED <<script, i, state, environment, cycle_history, all_reasoning,
                   reasoning, prompt, pre, updates, calls, synthCalls, failed,
                   firstFail>>

\* range(N) is exhausted.
LoopExhausted ==
    /\ pc = "loop"
    /\ i = MaxCycles(script)
    /\ outcome' = "Completed"
    /\ pc' = "synthesis"
    /\ UNCHANGED <<script, i, state, environment, cycle_history, all_reasoning,
                   reasoning, prompt, pre, updates, calls, synthCalls, reported,
                   failed, firstFail>>

\* The synthesis prompt is built and sent.
CallSynthesis ==
    /\ pc = "synthesis"
    /\ prompt' = SynthesisPrompt(script, state, environment, cycle_history,
                                 all_reasoning)
    /\ synthCalls' = synthCalls + 1
    /\ pc' = "synthesis_call"
    /\ UNCHANGED <<script, i, state, environment, cycle_history, all_reasoning,
                   reasoning, pre, updates, calls, reported, outcome, failed,
                   firstFail>>

\* The synthesis call returns: the summary and the closing lines are printed.
SynthesisReply ==
    /\ pc = "synthesis_call"
    /\ pc' = "done"
    /\ UNCHANGED <<script, i, state, environment, cycle_history, all_reasoning,
                   reasoning, prompt, pre, updates, calls, synthCalls, reported,
                   outcome, failed, firstFail>>

\* The synthesis call raises.
SynthesisRaises ==
    /\ pc = "synthesis_call"
    /\ failed' = "synthesis"
    /\ pc' = AfterRaise
    /\ UNCHANGED <<script, i, state, environment, cycle_history, all_reasoning,
                   reasoning, prompt, pre, updates, calls, synthCalls, reported,
                   outcome, firstFail>>

\* A reply of the run: at most MaxAdjust of them carry a marker line.
RunReply ==
    \E r \in RunReplies(script) :
        /\ HasMarker(script, r) => MarkedReplies(script, all_reasoning) < MaxAdjust
        /\ CycleReply(r)

Next ==
    \/ StartCycle /\ UNCHANGED <<gen, steps>>
    \/ RunReply /\ UNCHANGED <<gen, steps>>
    \/ CycleCallRaises /\ UNCHANGED <<gen, steps>>
    \/ BreakOnFailure /\ UNCHANGED <<gen, steps>>
    \/ LoopExhausted /\ UNCHANGED <<gen, steps>>
    \/ CallSynthesis /\ UNCHANGED <<gen, steps>>
    \/ SynthesisReply /\ UNCHANGED <<gen, steps>>
    \/ SynthesisRaises /\ UNCHANGED <<gen, steps>>

Spec == Init /\ [][Next]_vars

----------------------------------------------------------------------------
(* The Adjustment Parser on generated replies *)

\* the key searched for each environment field
Fields(s) ==
    IF s = "astro" THEN {"ion_flux", "voltage", "thermal_cycling"}
    ELSE {"radiation_level", "temp_cycling"}

FieldKey(f) ==
    CASE f = "ion_flux" -> "ion_flux="
      [] f = "voltage" -> "voltage="
      [] f = "thermal_cycling" -> "thermal="
      [] f = "radiation_level" -> "radiation="
      [] f = "temp_cycling" -> "temp="

Keys(s) == {FieldKey(f) : f \in Fields(s)}

\* the values written after a key: two decimals and a word
ShapeValues == {"1.1", "0.5", "abc"}

Trailings == {"none", "words", "clause"}
Layouts == {"single", "preamble", "second_marker", "unmarked"}

\* A shape: the name=value pairs of the line in order, what follows the last
\* value, and where the line stands in the reply.
GeneratedShapes(s) ==
    {[pairs |-> ps, trailing |-> t, layout |-> l] :
        ps \in UNION {[1..n -> Keys(s) \X ShapeValues] : n \in 0..MaxPairs},
        t \in Trailings, l \in Layouts}

\* "RECOMMEND: ion_flux=1.1, voltage=0.9, thermal=1.0" and its counterpart
ExampleShape(s) ==
    [pairs |-> IF s = "astro"
               THEN << <<"ion_flux=", "1.1">>, <<"voltage=", "0.9">>,
                       <<"thermal=", "1.0">> >>
               ELSE << <<"radiation=", "0.9">>, <<"temp=", "1.1">> >>,
     trailing |-> "none", layout |-> "single"]

RECURSIVE RenderPairs(_)
RenderPairs(ps) ==
    IF ps = <<>> THEN <<>>
    ELSE IF Len(ps) = 1 THEN <<ps[1][1], ps[1][2]>>
    ELSE <<ps[1][1], ps[1][2], ",", " ">> \o RenderPairs(Tail(ps))

RenderTrailing(t) ==
    CASE t = "none" -> <<>>
      [] t = "words" -> <<" ", "w">>
      [] t = "clause" -> <<",", " ", "w">>

\* a later line that carries the marker too
SecondMarkerLine(s) ==
    IF s = "astro"
    THEN <<"RECOMMEND:", " ", "ion_flux=", "2.0", ",", " ",
           "voltage=", "2.0", ",", " ", "thermal=", "2.0">>
    ELSE <<"ADJUST:", " ", "radiation=", "2.0", ",", " ", "temp=", "2.0">>

\* the reply text of a shape
Render(s, g) ==
    LET body == RenderPairs(g.pairs) \o RenderTrailing(g.trailing)
        line == <<Marker(s), " ">> \o body
        other == SecondMarkerLine(s)
    IN  CASE g.layout = "single" -> <<line>>
          [] g.layout = "preamble" -> << <<"w", " ", "w">>, line >>
          [] g.layout = "second_marker" -> <<line, other>>
          [] g.layout = "unmarked" -> << <<"w", " ">> \o body >>

\* a first reply that moves every multiplier off its baseline
Tuning(s) ==
    IF s = "astro"
    THEN << <<"RECOMMEND:", " ", "ion_flux=", "1.1", ",", " ",
              "voltage=", "0.9", ",", " ", "thermal=", "0.5">> >>
    ELSE << <<"ADJUST:", " ", "radiation=", "0.9", ",", " ", "temp=", "1.1">> >>

\* The call of the first cycle, or that of the second cycle after the reply
\* Tuning, is waiting for its reply, whose shape is drawn.
InitParse ==
    /\ script \in Scripts
    /\ i \in {0, 1}
    /\ LET s1 == apply_degradation(script, StateInit(script), EnvironmentInit(script))
           e1 == ParseAdjustments(script, EnvironmentInit(script), Tuning(script))
           s2 == apply_degradation(script, s1, e1)
       IN  IF i = 0
           THEN /\ state = s1
                /\ environment = EnvironmentInit(script)
                /\ cycle_history = <<>>
                /\ all_reasoning = <<>>
                /\ reasoning = <<>>
                /\ pre = [state |-> StateInit(script),
                          environment |-> EnvironmentInit(script)]
           ELSE /\ state = s2
                /\ environment = e1
                /\ cycle_history = <<to_dict(script, s1)>>
                /\ all_reasoning = <<Tuning(script)>>
                /\ reasoning = Tuning(script)
                /\ pre = [state |-> s1, environment |-> e1]
    /\ prompt = CyclePrompt(script, state, environment, cycle_history)
    /\ updates = i + 1
    /\ calls = i + 1
    /\ pc = "call"
    /\ synthCalls = 0
    /\ reported = FALSE
    /\ outcome = "Running"
    /\ failed = "no"
    /\ firstFail = 0
    /\ \/ gen \in GeneratedShapes(script)
       \/ gen = ExampleShape(script)
    /\ steps = 0

\* The reply arrives: it is the text of the shape.
ShapedReply ==
    /\ steps = 0
    /\ CycleReply(Render(script, gen))
    /\ steps' = steps + 1
    /\ UNCHANGED gen

NextParse == ShapedReply

SpecParse == InitParse /\ [][NextParse]_vars

----------------------------------------------------------------------------
(* The Degradation Update on drawn states *)

\* states apply_degradation is applied to: fresh and worn values, values just
\* below each threshold, the flag either way
DegradationStates(s) ==
    IF s = "astro"
    THEN {[ElectrodeInit EXCEPT !.sputtering_depth = sd,
                                !.surface_roughness = sr,
                                !.arc_discharge_risk = ar,
                                !.thrust_efficiency_loss = tl,
                                !.critical_failure = cf,
                                !.cycle_count = n] :
            sd \in {0, 2346, 499900}, sr \in {500, 2557}, ar \in {500, 6900},
            tl \in {0, 2900}, cf \in BOOLEAN, n \in {0, 14}}
    ELSE {[defect_density |-> dd, thermal_stress |-> ts,
           conductivity_drift |-> cd, cycle_count |-> n] :
            dd \in {100, 5000}, ts \in {500, 9000}, cd \in {0, -300},
            n \in {0, 9}}

\* multipliers apply_degradation is called with
DegradationMultipliers == {10000, 5000, -10000}

DegradationEnvironments(s) ==
    IF s = "astro"
    THEN {[ion_flux |-> f, voltage |-> v, thermal_cycling |-> t,
           mission_hours |-> 100] :
            f \in DegradationMultipliers, v \in DegradationMultipliers,
            t \in DegradationMultipliers}
    ELSE {[radiation_level |-> r, temp_cycling |-> t] :
            r \in DegradationMultipliers, t \in DegradationMultipliers}

InitDeg ==
    /\ script \in Scripts
    /\ state \in DegradationStates(script)
    /\ environment \in DegradationEnvironments(script)
    /\ pc = "function"
    /\ i = 0
    /\ cycle_history = <<>>
    /\ all_reasoning = <<>>
    /\ reasoning = <<>>
    /\ prompt = NoPrompt
    /\ pre = [state |-> state, environment |-> environment]
    /\ updates = 0
    /\ calls = 0
    /\ synthCalls = 0
    /\ reported = FALSE
    /\ outcome = "Running"
    /\ failed = "no"
    /\ firstFail = 0
    /\ gen = NoShape
    /\ steps = 0

\* state.apply_degradation(...) with the current environment
DegUpdate ==
    /\ pc = "function"
    /\ steps < MaxDegSteps
    /\ state' = apply_degradation(script, state, environment)
    /\ pre' = [state |-> state, environment |-> environment]
    /\ updates' = updates + 1
    /\ steps' = steps + 1
    /\ UNCHANGED <<script, pc, i, environment, cycle_history, all_reasoning,
                   reasoning, prompt, calls, synthCalls, reported, outcome,
                   failed, firstFail, gen>>

\* an adjustment of the environment between two updates
DegAdjust ==
    /\ pc = "function"
    /\ steps < MaxDegSteps
    /\ \E r \in {Render(script, ExampleShape(script)), Garbled(script)} :
          /\ reasoning' = r
          /\ environment' = ParseAdjustments(script, environment, r)
    /\ pre' = [state |-> state, environment |-> environment]
    /\ steps' = steps + 1
    /\ UNCHANGED <<script, pc, i, state, cycle_history, all_reasoning, prompt,
                   updates, calls, synthCalls, reported, outcome, failed,
                   firstFail, gen>>

NextDeg == DegUpdate \/ DegAdjust

SpecDeg == InitDeg /\ [][NextDeg]_vars

----------------------------------------------------------------------------
(* Cycle Driver claims, checked under Spec *)

LoopLeft == pc \in {"synthesis", "synthesis_call", "done"}

\* C1: with no external-call failure, the number of Degradation Update
\* invocations equals the number of history entries, between cycles and after
\* the loop; after the loop both equal N and the run is Completed when the
\* terminal flag never became true, and both equal k and the run is
\* Terminated-Early when the flag first became true on update k < N.
C1_UpdatesMatchHistory ==
    failed = "no" =>
        /\ pc = "loop" => updates = Len(cycle_history) /\ updates = i
        /\ pc = "call" => updates = Len(cycle_history) + 1
        /\ state.cycle_count = updates
        /\ LoopLeft =>
            /\ updates = Len(cycle_history)
            /\ firstFail = 0 =>
                  outcome = "Completed" /\ updates = MaxCycles(script)
            /\ firstFail \in 1..(MaxCycles(script) - 1) =>
                  outcome = "Terminated-Early" /\ updates = firstFail

\* a run that ended early: the flag rose on update k < 15 and k entries exist
C1_Witness ==
    /\ pc = "done"
    /\ outcome = "Terminated-Early"
    /\ firstFail \in 1..(MaxCycles(script) - 1)
    /\ Len(cycle_history) = firstFail
    /\ MarkedReplies(script, all_reasoning) > 0

\* C2: in astrocycle.py, once critical_failure has become true on some update
\* 1..N, the synthesis call is only made after the failure has been reported
\* and the run has ended Terminated-Early.
C2_FailureReported ==
    (script = "astro" /\ firstFail > 0 /\ synthCalls > 0) =>
        (reported /\ outcome = "Terminated-Early")

----------------------------------------------------------------------------
(* Adjustment Parser claims, checked under SpecParse *)

ShapeHas(g, key) == \E k \in 1..Len(g.pairs) : g.pairs[k][1] = key

\* the value written after the first occurrence of key
ShapeValue(g, key) ==
    g.pairs[CHOOSE k \in 1..Len(g.pairs) :
               g.pairs[k][1] = key /\ \A j \in 1..(k-1) : g.pairs[j][1] # key][2]

Marked(g) == g.layout \in {"single", "preamble", "second_marker"}

\* every value is a decimal and no name is written twice
WellFormedPairs(g) ==
    /\ \A k \in 1..Len(g.pairs) : g.pairs[k][2] \in NumTokens
    /\ \A j, k \in 1..Len(g.pairs) : j # k => g.pairs[j][1] # g.pairs[k][1]

KeyRank(key) ==
    CASE key = "ion_flux=" -> 1
      [] key = "voltage=" -> 2
      [] key = "thermal=" -> 3
      [] key = "radiation=" -> 1
      [] key = "temp=" -> 2

\* the pairs stand in the order of the prompt's template and end with its
\* last name (thermal= / temp=)
TemplateOrder(s, g) ==
    /\ g.pairs # <<>>
    /\ \A k \in 1..(Len(g.pairs) - 1) :
          KeyRank(g.pairs[k][1]) < KeyRank(g.pairs[k+1][1])
    /\ KeyRank(g.pairs[Len(g.pairs)][1]) = Cardinality(Keys(s))

\* the field multiplied by the value written for it, or left as it was
ExpectedField(g, f) ==
    IF ShapeHas(g, FieldKey(f))
    THEN Mul(pre.environment[f], LiteralValue(ShapeValue(g, FieldKey(f))))
    ELSE pre.environment[f]

Parsed == pc = "loop" /\ steps = 1

\* C3: when the marker line is present and a value on it is not a number, the
\* whole adjustment is abandoned: every field keeps its pre-cycle value.
C3_AllOrNothing ==
    (/\ Parsed
     /\ Marked(gen)
     /\ \E f \in Fields(script) :
           /\ ShapeHas(gen, FieldKey(f))
           /\ ShapeValue(gen, FieldKey(f)) \notin NumTokens)
    => environment = pre.environment

\* C4: for a first marker line of well-formed name=value pairs, each field
\* whose name is on the line is multiplied by its value and every other field
\* is unchanged; a later marker line is not used.
C4_PairsApplied ==
    (Parsed /\ Marked(gen) /\ WellFormedPairs(gen) /\ gen.trailing = "none")
    => \A f \in Fields(script) : environment[f] = ExpectedField(gen, f)

\* C5: commentary after the last value of the marker line is tolerated: every
\* name on the line, the last one (thermal= / temp=) included, is still
\* parsed and applied.
C5_TrailingTolerated ==
    (/\ Parsed
     /\ Marked(gen)
     /\ WellFormedPairs(gen)
     /\ TemplateOrder(script, gen)
     /\ gen.trailing # "none")
    => \A f \in Fields(script) : environment[f] = ExpectedField(gen, f)

\* C6: a reply without a marker line leaves every environment field as it
\* was, and the cycle completes: the snapshot and the text are appended and
\* the loop goes on.
C6_NoMarkerNoChange ==
    (Parsed /\ gen.layout = "unmarked") =>
        /\ \A f \in DOMAIN pre.environment : environment[f] = pre.environment[f]
        /\ DOMAIN environment = DOMAIN pre.environment
        /\ Len(cycle_history) = updates
        /\ cycle_history[updates].cycle = updates
        /\ Len(all_reasoning) = updates
        /\ all_reasoning[updates] = reasoning
        /\ i = updates
        /\ failed = "no"

\* a reply that names every field with a decimal value but has no marker
C6_Witness ==
    /\ Parsed
    /\ gen.layout = "unmarked"
    /\ WellFormedPairs(gen)
    /\ Len(gen.pairs) = Cardinality(Fields(script))
    /\ ~HasMarker(script, reasoning)
    /\ Len(cycle_history) = 2
    /\ environment # EnvironmentInit(script)

----------------------------------------------------------------------------
(* Degradation Update claims, checked under SpecDeg *)

\* the variables that accumulate damage
DamageFields(s) ==
    IF s = "astro"
    THEN {"sputtering_depth", "surface_roughness", "microcracks",
          "thermal_stress", "hot_spot_formation", "electrical_resistance",
          "arc_discharge_risk", "thrust_efficiency_loss"}
    ELSE {"defect_density", "thermal_stress"}

\* every variable is non-negative, conductivity_drift (which starts at 0.0
\* and only falls) apart
NonNegativeState(s, st) == \A f \in DamageFields(s) : st[f] >= 0

PositiveEnvironment(s, env) == \A f \in Fields(s) : env[f] > 0

\* C7: for a state with non-negative variables and an environment with
\* positive parameters, one call of apply_degradation leaves every
\* damage-accumulating variable at least as large as before and raises
\* cycle_count by exactly 1.
C7_MonotoneUpdate ==
    [][(/\ updates' = updates + 1
        /\ NonNegativeState(script, state)
        /\ PositiveEnvironment(script, environment))
       => /\ \A f \in DamageFields(script) : state'[f] >= state[f]
          /\ state'.cycle_count = state.cycle_count + 1]_vars

\* an update of a worn electrode under positive parameters that raised the
\* sputtering depth from just below its threshold
C7_Witness ==
    /\ pc = "function"
    /\ script = "astro"
    /\ updates = 1
    /\ steps = 1
    /\ NonNegativeState(script, pre.state)
    /\ PositiveEnvironment(script, pre.environment)
    /\ pre.state.sputtering_depth = 499900
    /\ state.sputtering_depth > pre.state.sputtering_depth
    /\ state.cycle_count = pre.state.cycle_count + 1

\* C8: in astrocycle.py, an update after which arc_discharge_risk <= 0.7,
\* sputtering_depth <= 50.0 and thrust_efficiency_loss <= 0.3 leaves a false
\* critical_failure false; and no step, update or adjustment, makes a true
\* critical_failure false.
C8_FlagIrreversible ==
    [][script = "astro" =>
        /\ (/\ updates' = updates + 1
            /\ ~state.critical_failure
            /\ state'.arc_discharge_risk <= 7000
            /\ state'.sputtering_depth <= 500000
            /\ state'.thrust_efficiency_loss <= 3000)
           => ~state'.critical_failure
        /\ state.critical_failure => state'.critical_failure]_vars

\* the flag was true before the last update and is true after it, although no
\* threshold is exceeded any more
C8_Witness ==
    /\ pc = "function"
    /\ script = "astro"
    /\ updates = 2
    /\ pre.state.critical_failure
    /\ state.critical_failure
    /\ state.arc_discharge_risk <= 7000
    /\ state.sputtering_depth <= 500000
    /\ state.thrust_efficiency_loss <= 3000

----------------------------------------------------------------------------
(* External-call failure and synthesis claims, checked under Spec *)

\* C9: when the external call of cycle n or the synthesis call raises, the run
\* halts there: no call is repeated, the environment is as it was before the
\* cycle, no history entry exists for cycle n, no step follows, and after a
\* per-cycle failure no synthesis call has been made.
C9_FailureHalts ==
    /\ [](/\ failed # "no" => pc = "raised"
          /\ failed = "cycle" =>
                /\ calls = updates
                /\ Len(cycle_history) = updates - 1
                /\ Len(all_reasoning) = updates - 1
                /\ i = updates - 1
                /\ environment = pre.environment
                /\ synthCalls = 0
          /\ failed = "synthesis" =>
                /\ synthCalls = 1
                /\ calls = updates
                /\ Len(cycle_history) = updates)
    /\ [][failed = "no"]_vars

\* the call of the third cycle raised, after an adjustment had been applied
C9_Witness ==
    /\ failed = "cycle"
    /\ pc = "raised"
    /\ updates = 3
    /\ Len(cycle_history) = 2
    /\ environment # EnvironmentInit(script)

\* the synthesis prompt holds every snapshot and every reply, in cycle order
PromptHoldsRun ==
    /\ prompt.kind = "synthesis"
    /\ prompt.history = cycle_history
    /\ Len(prompt.history) = updates
    /\ \A k \in 1..Len(prompt.history) : prompt.history[k].cycle = k
    /\ Len(prompt.analyses) = updates
    /\ \A k \in 1..Len(prompt.analyses) :
          prompt.analyses[k] = <<k, all_reasoning[k]>>

\* the driver has a next step: the loop test has an outcome, the boundary can
\* answer, the synthesis call can be made and can return
RunGoesOn ==
    /\ pc \in {"loop", "call", "synthesis", "synthesis_call"}
    /\ pc = "loop" => ENABLED (StartCycle \/ BreakOnFailure \/ LoopExhausted)
    /\ pc = "call" => ENABLED CycleReply(NoAdvice(script))
    /\ pc = "synthesis" => ENABLED CallSynthesis
    /\ pc = "synthesis_call" => ENABLED SynthesisReply

\* C10: a run without external-call failure makes exactly one synthesis call:
\* none before the loop is left, Completed or Terminated-Early, one once the
\* run is done, and the run does not stop before; its prompt holds every
\* history entry and every reply of the run in cycle order; and after it no
\* update, adjustment or append happens.
C10_OneSynthesis ==
    /\ [](/\ synthCalls <= 1
          /\ synthCalls = 0 /\ failed = "no" => pc \in {"loop", "call", "synthesis"}
          /\ pc = "synthesis" => outcome \in {"Completed", "Terminated-Early"}
          /\ pc = "done" => synthCalls = 1 /\ failed = "no"
          /\ synthCalls = 1 =>
                /\ outcome \in {"Completed", "Terminated-Early"}
                /\ PromptHoldsRun
          /\ (failed = "no" /\ pc # "done") => RunGoesOn)
    /\ [][synthCalls >= 1 =>
            UNCHANGED <<state, environment, cycle_history, all_reasoning,
                        updates, calls, synthCalls>>]_vars

\* a run that ended early and made its one synthesis call over its 13 cycles
C10_Witness ==
    /\ pc = "done"
    /\ outcome = "Terminated-Early"
    /\ synthCalls = 1
    /\ failed = "no"
    /\ Len(prompt.history) = updates
    /\ updates < MaxCycles(script)
    /\ updates > 4

----------------------------------------------------------------------------
(* Environment Model claim, checked under Spec *)

\* C11: every environment multiplier is 1.0 when the run starts and is a
\* positive real in every reachable state of a run, whatever replies the
\* text-generation boundary returns.
C11_MultipliersPositive ==
    /\ updates = 0 => \A f \in Fields(script) : environment[f] = SCALE
    /\ \A f \in Fields(script) : environment[f] > 0

====
